---- MODULE Spec2Model ----
(***************************************************************************)
(* A model of NewsCrawler (src/main.py): the crawl loop with its queue and *)
(* visited set, the article collection with its checkpoint every 50        *)
(* records, and save_json's in-place write of the output file.             *)
(***************************************************************************)
EXTENDS Integers, Sequences, FiniteSets, TLC

VARIABLES
    queue,          \* self.queue: set of URLs waiting to be popped
    visited_urls,   \* self.visited_urls
    articles,       \* self.articles: list of article records
    max_pages,      \* self.max_pages
    file,           \* the file at self.articles_file: [exists, data]
    pc,             \* "running": at the while condition of crawl(); "stopped": crawl() has exited;
                    \* "store": save_article driven directly by a caller
    exit,           \* how crawl() left its loop
    autoSaves,      \* calls of save_json made by save_article (line 164)
    finalSaves,     \* calls of save_json made by crawl's finally block (line 216)
    lastSave,       \* outcome of the latest save_json call
    fetches,        \* number of requests.get calls per URL
    last,           \* the latest step: what it was, its URL, how the fetch ended, what was raised
    start_urls,     \* self.start_urls
    rested,         \* no requests.get has been made since the latest time.sleep (or the start)
    probe           \* a pure function under test: its input and, once applied, its result

vars == <<queue, visited_urls, articles, max_pages, file, pc, exit,
          autoSaves, finalSaves, lastSave, fetches, last, start_urls, rested, probe>>

-----------------------------------------------------------------------------
(* Bounds *)

MaxPagesBound == 2
MaxPartial == 1
MaxStoreUrls == 102
MaxDupUrl == 3
MaxRestLen == 3
MaxTitleElems == 2

(* Program constant: the checkpoint interval of save_article *)
BatchSize == 50

-----------------------------------------------------------------------------
(* URLs.  A URL is scheme://netloc + rest, netloc and rest being sequences *)
(* of text pieces; substring and suffix tests are made piece by piece.     *)

UrlTable == <<
    [netloc |-> <<"www.", "novinky.cz">>,  rest |-> <<"/">>],
    [netloc |-> <<"www.", "novinky.cz">>,  rest |-> <<"/clanek/", "a">>],
    [netloc |-> <<"www.", "idnes.cz">>,    rest |-> <<"/zpravy/", "y">>],
    [netloc |-> <<"www.", "example.com">>, rest |-> <<"/clanek/", "x">>] >>

URLS == DOMAIN UrlTable

valid_domains == <<"novinky.cz", "idnes.cz", "ctk.cz">>
file_extensions == <<".jpg", ".jpeg", ".png", ".gif", ".pdf", ".mp4">>
article_patterns ==
    <<[site |-> "novinky.cz", pattern |-> "/clanek/"],
      [site |-> "idnes.cz",   pattern |-> "/zpravy/"],
      [site |-> "ctk.cz",     pattern |-> "/clanek/"]>>

Contains(seq, piece) == \E i \in DOMAIN seq : seq[i] = piece

Lower(piece) ==
    CASE piece = ".JPG" -> ".jpg"
      [] piece = ".PNG" -> ".png"
      [] piece = ".PDF" -> ".pdf"
      [] OTHER -> piece

UrlPieces(url) == <<"https://">> \o url.netloc \o url.rest

EndsWith(url, ext) ==
    LET p == UrlPieces(url) IN Lower(p[Len(p)]) = ext

is_valid_article_url(url) ==
    LET domain_match == \E i \in DOMAIN valid_domains : Contains(url.netloc, valid_domains[i])
        is_file == \E i \in DOMAIN file_extensions : EndsWith(url, file_extensions[i])
        is_article == \E i \in DOMAIN article_patterns :
                          /\ Contains(url.netloc, article_patterns[i].site)
                          /\ Contains(UrlPieces(url), article_patterns[i].pattern)
    IN domain_match /\ is_article /\ ~is_file

-----------------------------------------------------------------------------
(* Titles.  The h1 and title elements of a page in document order, each    *)
(* with its class attribute and its text; get_text(strip=True) strips the  *)
(* text.                                                                   *)

TitleTags == {"h1", "title"}
TitleClasses == {"article-title", "title"}
TitleTexts == {"", " ", " A ", "B"}

TitleElems == [tag : TitleTags, classes : SUBSET TitleClasses, text : TitleTexts]

(* The generic heading tried before the specific ones. *)
title_selectors_generic_first ==
    <<[tag |-> "h1",    classes |-> {}],
      [tag |-> "h1",    classes |-> {"article-title"}],
      [tag |-> "h1",    classes |-> {"title"}],
      [tag |-> "title", classes |-> {}]>>

(* Lines 77-82, a selector as the tag and the classes it asks for. *)
title_selectors ==
    <<[tag |-> "h1",    classes |-> {"article-title"}],
      [tag |-> "h1",    classes |-> {"title"}],
      [tag |-> "h1",    classes |-> {}],
      [tag |-> "title", classes |-> {}]>>

(* Line 88; the source has the diacritics: "Nepodařilo se najít nadpis". *)
TitleNotFound == "Nepodarilo se najit nadpis"

Strip(t) == IF t = " A " THEN "A" ELSE IF t = " " THEN "" ELSE t

get_text(elem) == Strip(elem.text)

Selects(selector, elem) ==
    elem.tag = selector.tag /\ selector.classes \subseteq elem.classes

(* soup.select_one: the first element in document order the selector      *)
(* matches, 0 standing for None.                                           *)
select_one(doc, selector) ==
    LET hits == {i \in DOMAIN doc : Selects(selector, doc[i])}
    IN IF hits = {} THEN 0 ELSE CHOOSE i \in hits : \A j \in hits : i <= j

(* Lines 84-88: `if title_elem` is true of every element, empty or not. *)
RECURSIVE TitleFrom(_, _)
TitleFrom(doc, k) ==
    IF k > Len(title_selectors) THEN TitleNotFound
    ELSE LET title_elem == select_one(doc, title_selectors[k])
         IN IF title_elem # 0 THEN get_text(doc[title_elem])
            ELSE TitleFrom(doc, k + 1)

extract_title(doc) == TitleFrom(doc, 1)

-----------------------------------------------------------------------------
(* Documents: the links of a page and the three date candidates of         *)
(* extract_date, in selector order.                                        *)

NoElem == [present |-> FALSE, content |-> "None", datetime |-> "None"]
Elem(c, d) == [present |-> TRUE, content |-> c, datetime |-> d]

DateChains == {
    <<NoElem, NoElem, NoElem>>,
    <<Elem("2024-01-02T03:04:05Z", "None"), NoElem, NoElem>>,
    <<Elem("yesterday", "None"), Elem("None", "2024-01-02"), NoElem>>,
    <<Elem("yesterday", "None"), NoElem, NoElem>>,
    <<NoElem, Elem("None", ""), NoElem>>,
    <<Elem("None", "None"), NoElem, NoElem>>,
    <<NoElem, NoElem, Elem("", "None")>> }

(* A page without date element. *)
NoDate == <<NoElem, NoElem, NoElem>>

(* What datetime.now().isoformat() returns when line 153 is reached: 26     *)
(* characters with the microseconds ("NOW"), 19 at a whole second, where   *)
(* isoformat leaves the fraction out ("NOW_S").                            *)
Clocks == {"NOW", "NOW_S"}

(* A page as one iteration meets it: its links, its date candidates,       *)
(* whether an href is malformed, its h1 and title elements, and the clock  *)
(* at the moment it is parsed.  The pages of the model hold no element for *)
(* category, comments, images or content.                                  *)
Page(links, date, badHref, title) ==
    [links |-> links, date |-> date, badHref |-> badHref, title |-> title, now |-> "NOW"]

(* A page with no h1 and no title element. *)
Doc(links, date, badHref) == Page(links, date, badHref, <<>>)

(* The link sets pages are drawn with: in-scope links (2, 3), an            *)
(* out-of-scope link (4), a link to the seed (1).                           *)
LinkSets == {{}, {2}, {3}, {2, 3}, {2, 4}, {1, 2, 3, 4}}

(* The pages the transport serves, to every step alike: each link set on   *)
(* a page without date element; each date chain on a page that links to 2  *)
(* and 3; a malformed href on a page without date and on a dated page; a   *)
(* page parsed at a whole second.                                          *)
Pages ==
    {Doc(links, NoDate, FALSE) : links \in LinkSets}
    \cup {Doc({2, 3}, date, FALSE) : date \in DateChains}
    \cup {Doc({2, 3}, date, TRUE) :
              date \in {NoDate, <<Elem("2024-01-02T03:04:05Z", "None"), NoElem, NoElem>>}}
    \cup {[Doc({2, 3}, NoDate, FALSE) EXCEPT !.now = "NOW_S"]}

Falsy(v) == v \in {"None", ""}

ReplaceZ(s) ==
    IF s = "2024-01-02T03:04:05Z" THEN "2024-01-02T03:04:05+00:00" ELSE s

IsoParsable == {"2024-01-02T03:04:05+00:00", "2024-01-02"}

IsoFormat(s) == IF s = "2024-01-02" THEN "2024-01-02T00:00:00" ELSE s

RECURSIVE DateFrom(_, _, _)
DateFrom(chain, i, now) ==
    IF i > Len(chain) THEN [raised |-> "none", value |-> now]
    ELSE IF ~chain[i].present THEN DateFrom(chain, i + 1, now)
    ELSE LET date_str == IF Falsy(chain[i].content) THEN chain[i].datetime
                         ELSE chain[i].content
         IN IF date_str = "None" THEN [raised |-> "AttributeError", value |-> "None"]
            ELSE IF ReplaceZ(date_str) \in IsoParsable
                 THEN [raised |-> "none", value |-> IsoFormat(ReplaceZ(date_str))]
                 ELSE DateFrom(chain, i + 1, now)

extract_date(doc) == DateFrom(doc.date, 1, doc.now)

extract_article_data(url, doc) ==
    LET d == extract_date(doc)
    IN [raised |-> d.raised,
        data |-> [url |-> url, title |-> extract_title(doc.title), created_at |-> d.value]]

(* is_valid_article_url of each URL of the table. *)
Accepted == [u \in URLS |-> is_valid_article_url(UrlTable[u])]

extract_links(doc) ==
    IF doc.badHref THEN [raised |-> "ValueError", links |-> {}]
    ELSE [raised |-> "none", links |-> {u \in doc.links : Accepted[u]}]

-----------------------------------------------------------------------------
(* The output file and save_json.  json.dump(..., indent=2) writes "[]"    *)
(* for an empty list and otherwise "[\n", the records separated by ",\n",  *)
(* and "\n]".  The file holds a sequence of pieces, each with the number   *)
(* of bytes it takes in the file.                                          *)

(* The bytes of a record apart from its url, title, created_at and         *)
(* source_website values: the braces, the eight keys, and the values of    *)
(* category, comments_count, images_count and content of a page without    *)
(* those elements ("Kategorie nenalezena", 0, 0, "Obsah nenalezen").       *)
RecFixed == 208

(* UTF-8 lengths.  The sentinel of line 88 has two letters of two bytes;   *)
(* datetime.now().isoformat() has 26 characters, 19 at a whole second.     *)
TitleBytes(t) == IF t = TitleNotFound THEN 28 ELSE Len(t)
DateBytes(d) == IF d = "NOW" THEN 26 ELSE IF d = "NOW_S" THEN 19 ELSE Len(d)

RECURSIVE TextBytes(_)
TextBytes(pieces) ==
    IF pieces = <<>> THEN 0 ELSE Len(Head(pieces)) + TextBytes(Tail(pieces))

(* A URL number outside UrlTable stands for                                *)
(* https://www.novinky.cz/clanek/ddd, d a digit.                           *)
UrlBytes(u) == IF u \in URLS THEN TextBytes(UrlPieces(UrlTable[u])) ELSE 33
NetlocBytes(u) == IF u \in URLS THEN TextBytes(UrlTable[u].netloc) ELSE 14

RecBytes(r) ==
    RecFixed + UrlBytes(r.url) + TitleBytes(r.title) + DateBytes(r.created_at)
             + NetlocBytes(r.url)

Tok(k, n) == [k |-> k, url |-> 0, title |-> "", created_at |-> "", size |-> n]
RecTok(r) == [k |-> "rec", url |-> r.url, title |-> r.title, created_at |-> r.created_at,
              size |-> RecBytes(r)]

Records(arts) ==
    IF Len(arts) = 0 THEN <<>>
    ELSE [i \in 1..(2 * Len(arts) - 1) |->
             IF i % 2 = 1 THEN RecTok(arts[(i + 1) \div 2]) ELSE Tok(",", 2)]

Serialize(arts) ==
    IF Len(arts) = 0 THEN <<Tok("[", 1), Tok("]", 1)>>
    ELSE <<Tok("[", 2)>> \o Records(arts) \o <<Tok("]", 2)>>

Absent == [exists |-> FALSE, data |-> <<>>]
Existing(data) == [exists |-> TRUE, data |-> data]

(* The file an earlier run left: three records of pages without title. *)
OldOutput ==
    Serialize(<<[url |-> 2, title |-> TitleNotFound, created_at |-> "2020-05-05T00:00:00"],
                [url |-> 3, title |-> TitleNotFound, created_at |-> "2020-05-05T00:00:00"],
                [url |-> 4, title |-> TitleNotFound, created_at |-> "2020-05-05T00:00:00"]>>)

InitialFiles == {Absent, Existing(<<>>), Existing(OldOutput)}

(* What happens to one call of save_json.  The write goes through (ok) or  *)
(* is stopped: by an OSError once `written` bytes have reached the file,   *)
(* or by a KeyboardInterrupt (interrupt) once json.dump has made `written` *)
(* calls of f.write, whose bytes the close of the with block flushes.  A   *)
(* KeyboardInterrupt can also arrive once the write is complete, at line   *)
(* 171 (ok and interrupt).                                                 *)
NoFault == [ok |-> TRUE, written |-> 0, interrupt |-> FALSE]

IOs == {NoFault} \cup
       {[ok |-> FALSE, written |-> k, interrupt |-> FALSE] : k \in 0..MaxPartial}

InterruptedIOs ==
    {[ok |-> TRUE, written |-> 0, interrupt |-> TRUE]} \cup
    {[ok |-> FALSE, written |-> k, interrupt |-> TRUE] : k \in 0..MaxPartial}

Min(a, b) == IF a < b THEN a ELSE b

(* The bytes of the pieces lo..hi of a sequence. *)
RECURSIVE Bytes(_, _, _)
Bytes(seq, lo, hi) ==
    IF lo > hi THEN 0
    ELSE IF lo = hi THEN seq[lo].size
    ELSE LET mid == (lo + hi) \div 2
         IN Bytes(seq, lo, mid) + Bytes(seq, mid + 1, hi)

Size(seq) == Bytes(seq, 1, Len(seq))

(* Where the first n bytes end among the pieces lo..hi, which hold more    *)
(* than n bytes: the piece, and the bytes of that piece within the n.      *)
RECURSIVE Locate(_, _, _, _)
Locate(seq, lo, hi, n) ==
    IF lo = hi THEN [piece |-> lo, within |-> n]
    ELSE LET mid == (lo + hi) \div 2
             left == Bytes(seq, lo, mid)
         IN IF n < left THEN Locate(seq, lo, mid, n)
            ELSE Locate(seq, mid + 1, hi, n - left)

(* The strings json.dump(..., indent=2) hands to f.write for one record,   *)
(* by their bytes: the brace, then for each of the eight keys the line     *)
(* break with its indentation, the key, ": " and the value, then the line  *)
(* break before the closing brace, and that brace.                         *)
RecChunks(r) ==
    <<1, 5, 5, 2, UrlBytes(r.url) + 2,
         6, 7, 2, TitleBytes(r.title) + 2,
         6, 10, 2, 22,
         6, 16, 2, 1,
         6, 14, 2, 1,
         6, 9, 2, 17,
         6, 12, 2, DateBytes(r.created_at) + 2,
         6, 16, 2, NetlocBytes(r.url) + 2,
      3, 1>>

(* The calls of f.write for a whole list: "[]" in one call for the empty   *)
(* list; otherwise each record is preceded by one string of 4 bytes        *)
(* ("[\n  " for the first, ",\n  " for the others), and "\n" and "]" end   *)
(* the list.                                                               *)
NumChunks(arts) ==
    IF Len(arts) = 0 THEN 1 ELSE Len(arts) * (Len(RecChunks(arts[1])) + 1) + 2

ChunkAt(arts, p) ==
    IF Len(arts) = 0 THEN 2
    ELSE LET per == Len(RecChunks(arts[1])) + 1
             b == (p - 1) \div per
             o == (p - 1) % per
         IN IF b >= Len(arts) THEN 1
            ELSE IF o = 0 THEN 4
            ELSE RecChunks(arts[b + 1])[o]

RECURSIVE ChunkBytes(_, _)
ChunkBytes(arts, c) ==
    IF c = 0 THEN 0 ELSE ChunkAt(arts, c) + ChunkBytes(arts, c - 1)

(* The first n bytes of a content: its whole pieces within n bytes, and   *)
(* the head of the piece the n-th byte falls in.                           *)
Prefix(data, n) ==
    IF n >= Size(data) THEN data
    ELSE LET at == Locate(data, 1, Len(data), n)
         IN SubSeq(data, 1, at.piece - 1) \o
            (IF at.within = 0 THEN <<>> ELSE <<Tok("newcut", at.within)>>)

(* The bytes of the new content that reach the file in one save_json. *)
Landed(arts, io) ==
    IF io.ok THEN Serialize(arts)
    ELSE IF io.interrupt
    THEN Prefix(Serialize(arts), ChunkBytes(arts, Min(io.written, NumChunks(arts))))
    ELSE Prefix(Serialize(arts), io.written)

(* What is left of an earlier content once n bytes are written over it:   *)
(* a piece the new bytes end in the middle of is left cut, its remaining   *)
(* bytes are no longer a record or a separator.                            *)
Remainder(old, n) ==
    IF n >= Size(old) THEN <<>>
    ELSE LET at == Locate(old, 1, Len(old), n)
         IN (IF at.within = 0 THEN <<old[at.piece]>>
             ELSE <<Tok("cut", old[at.piece].size - at.within)>>)
            \o SubSeq(old, at.piece + 1, Len(old))

(* open(..., 'r+') positions at offset 0 without truncating: the bytes     *)
(* written replace the first bytes of the file, the rest stays.            *)
WriteInPlace(old, data) == data \o Remainder(old, Size(data))

(* The objects a step works on, as one record m. *)
Mem == [queue |-> queue, visited_urls |-> visited_urls, articles |-> articles,
        file |-> file, autoSaves |-> autoSaves, finalSaves |-> finalSaves,
        lastSave |-> lastSave, rested |-> rested]

(* save_json emptying the collection once it has tried to write it. *)
save_json_clears(m, io) ==
    IF ~m.file.exists
    THEN [m EXCEPT !.lastSave = IF io.interrupt THEN "KeyboardInterrupt"
                                ELSE "FileNotFoundError",
                   !.articles = <<>>]
    ELSE [m EXCEPT !.lastSave = IF io.interrupt THEN "KeyboardInterrupt"
                                ELSE IF io.ok THEN "ok" ELSE "OSError",
                   !.articles = <<>>,
                   !.file = Existing(WriteInPlace(m.file.data, Landed(m.articles, io)))]

(* Lines 168-173: open fails when the file is absent; FileNotFoundError   *)
(* and OSError are caught and logged, KeyboardInterrupt is not an          *)
(* Exception and leaves save_json.                                         *)
save_json(m, io) ==
    IF ~m.file.exists
    THEN [m EXCEPT !.lastSave = IF io.interrupt THEN "KeyboardInterrupt"
                                ELSE "FileNotFoundError"]
    ELSE [m EXCEPT !.lastSave = IF io.interrupt THEN "KeyboardInterrupt"
                                ELSE IF io.ok THEN "ok" ELSE "OSError",
                   !.file = Existing(WriteInPlace(m.file.data, Landed(m.articles, io)))]

HasUrl(arts, url) == \E i \in DOMAIN arts : arts[i].url = url

(* save_article left by a KeyboardInterrupt after the append of line 159   *)
(* and before line 164 is reached (inside logging.info, or at the test of  *)
(* line 163): the record is in the collection, save_json is not called.   *)
save_article_interrupted(m, article_data) ==
    IF ~HasUrl(m.articles, article_data.url)
    THEN [m EXCEPT !.articles = Append(m.articles, article_data)]
    ELSE m

(* save_article without its duplicate check: every record is appended. *)
save_article_no_dedup(m, article_data, io) ==
    LET m1 == [m EXCEPT !.articles = Append(m.articles, article_data)]
    IN IF Len(m1.articles) % BatchSize = 0
       THEN save_json([m1 EXCEPT !.autoSaves = m.autoSaves + 1], io)
       ELSE m1

(* save_article testing the size before the append instead of after. *)
save_article_size_before(m, article_data, io) ==
    IF ~HasUrl(m.articles, article_data.url)
    THEN LET m1 == [m EXCEPT !.articles = Append(m.articles, article_data)]
         IN IF Len(m.articles) % BatchSize = 0
            THEN save_json([m1 EXCEPT !.autoSaves = m.autoSaves + 1], io)
            ELSE m1
    ELSE m

save_article(m, article_data, io) ==
    IF ~HasUrl(m.articles, article_data.url)
    THEN LET m1 == [m EXCEPT !.articles = Append(m.articles, article_data)]
         IN IF Len(m1.articles) % BatchSize = 0
            THEN save_json([m1 EXCEPT !.autoSaves = m.autoSaves + 1], io)
            ELSE m1
    ELSE m

-----------------------------------------------------------------------------
(* crawl() *)

Pop(m, url) == [m EXCEPT !.queue = m.queue \ {url}]

(* The queue update without the subtraction of visited_urls. *)
Offer_keeps_visited(m, new_links) == [m EXCEPT !.queue = m.queue \cup new_links]

Offer(m, new_links) == [m EXCEPT !.queue = m.queue \cup (new_links \ m.visited_urls)]

MarkVisited(m, url) == [m EXCEPT !.visited_urls = m.visited_urls \cup {url}]

(* Line 194: a request goes out.  Line 209: time.sleep. *)
Request(m) == [m EXCEPT !.rested = FALSE]

Sleep(m) == [m EXCEPT !.rested = TRUE]

Finally(m, io) == save_json([m EXCEPT !.finalSaves = m.finalSaves + 1], io)

(* The loop condition letting one page too many through. *)
LoopCond_one_more == queue # {} /\ Cardinality(visited_urls) <= max_pages

LoopCond == queue # {} /\ Cardinality(visited_urls) < max_pages

Commit(m) ==
    /\ queue' = m.queue
    /\ visited_urls' = m.visited_urls
    /\ articles' = m.articles
    /\ file' = m.file
    /\ autoSaves' = m.autoSaves
    /\ finalSaves' = m.finalSaves
    /\ lastSave' = m.lastSave
    /\ rested' = m.rested

Step(op, url, fetch, raised) ==
    [op |-> op, url |-> url, fetch |-> fetch, raised |-> raised, given |-> "",
     links |-> {}]

NoProbe == [fn |-> "none", input |-> <<>>, output |-> "", done |-> FALSE]

(* The exceptions requests.get and raise_for_status raise, all of them     *)
(* RequestException.                                                       *)
TransportErrors == {"Timeout", "ConnectionError", "HTTPError"}

Fetched(url) == fetches' = [fetches EXCEPT ![url] = @ + 1]

(* The write a save_article call can meet: only a call that brings the     *)
(* collection to a multiple of BatchSize writes.                           *)
CheckpointIOs ==
    IF (Len(articles) + 1) % BatchSize = 0 THEN IOs ELSE {NoFault}

(* A KeyboardInterrupt in a save_article whose checkpoint is due, once the  *)
(* record is appended: before save_json is called (inside logging.info, or *)
(* at the test of line 163), or inside save_json.  (With no checkpoint due *)
(* the interrupt finds the state save_article returns with.)               *)
BeforeCheckpoint == [ok |-> FALSE, written |-> 0, interrupt |-> TRUE, called |-> FALSE]

CheckpointInterrupts ==
    IF (Len(articles) + 1) % BatchSize = 0 THEN InterruptedIOs \cup {BeforeCheckpoint} ELSE {}

(* The write the finally block can meet: with no file, open fails before   *)
(* anything is written, whatever the file system would do.                 *)
FinalIOs ==
    IF file.exists THEN IOs \cup InterruptedIOs
    ELSE {NoFault, [ok |-> FALSE, written |-> 0, interrupt |-> TRUE]}

(* How crawl() is left, given the outcome of the final save_json: a        *)
(* KeyboardInterrupt inside it replaces whatever was ending the loop.      *)
ExitOf(reason, saved) == IF saved = "KeyboardInterrupt" THEN "interrupt" ELSE reason

(* The states of one successful iteration, statement by statement. *)
AfterAppend(url, doc) ==
    save_article_interrupted(Request(Pop(Mem, url)), extract_article_data(url, doc).data)
AfterSave(url, doc, io) ==
    save_article(Request(Pop(Mem, url)), extract_article_data(url, doc).data, io)
AfterOffer(url, doc, io) == Offer(AfterSave(url, doc, io), extract_links(doc).links)
AfterVisit(url, doc, io) == MarkVisited(AfterOffer(url, doc, io), url)
AfterSleep(url, doc, io) == Sleep(AfterVisit(url, doc, io))

(* Line 188: pop takes any element of the set that is the queue. *)
Popped(url) == pc = "running" /\ LoopCond /\ url \in queue

(* The loop without the test of line 190: the popped URL is requested     *)
(* whether visited or not.                                                 *)
Skip_fetches_anyway(url) ==
    /\ Popped(url) /\ url \in visited_urls
    /\ Fetched(url)
    /\ Commit(Request(Pop(Mem, url)))
    /\ last' = Step("iterate", url, "failed", "Timeout")
    /\ UNCHANGED <<max_pages, start_urls, probe, pc, exit>>

(* Lines 188-191: the popped URL is already visited, `continue`. *)
Skip(url) ==
    /\ Popped(url) /\ url \in visited_urls
    /\ Commit(Pop(Mem, url))
    /\ last' = Step("skip", url, "none", "none")
    /\ UNCHANGED <<max_pages, start_urls, probe, pc, exit, fetches>>

(* A transport error that is not caught inside the loop: it leaves        *)
(* crawl() through the finally block.                                      *)
FetchFail_uncaught(url, kind) ==
    /\ Popped(url) /\ url \notin visited_urls
    /\ Fetched(url)
    /\ Commit(Finally(Request(Pop(Mem, url)), NoFault))
    /\ last' = Step("iterate", url, "failed", kind)
    /\ pc' = "stopped" /\ exit' = "error"
    /\ UNCHANGED <<max_pages, start_urls, probe>>

(* Lines 194-195, 211-212: requests.get or raise_for_status raises a       *)
(* RequestException; it is logged and the loop goes on.                    *)
FetchFail(url, kind) ==
    /\ Popped(url) /\ url \notin visited_urls
    /\ Fetched(url)
    /\ Commit(Request(Pop(Mem, url)))
    /\ last' = Step("iterate", url, "failed", kind)
    /\ UNCHANGED <<max_pages, start_urls, probe, pc, exit>>

(* Lines 194-209: a whole successful iteration. *)
FetchOk(url, doc, io) ==
    /\ Popped(url) /\ url \notin visited_urls
    /\ extract_article_data(url, doc).raised = "none"
    /\ extract_links(doc).raised = "none"
    /\ Fetched(url)
    /\ Commit(AfterSleep(url, doc, io))
    /\ last' = [Step("iterate", url, "ok", "none") EXCEPT !.links = extract_links(doc).links]
    /\ UNCHANGED <<max_pages, start_urls, probe, pc, exit>>

(* The uncaught error leaving crawl() with no finally block around the     *)
(* loop: the final save_json is skipped.                                   *)
ExtractError_no_finally(url, doc, io) ==
    /\ pc = "running" /\ queue # {} /\ Cardinality(visited_urls) < max_pages
    /\ url \in queue /\ url \notin visited_urls
    /\ extract_article_data(url, doc).raised # "none"
    /\ fetches' = [fetches EXCEPT ![url] = @ + 1]
    /\ queue' = queue \ {url}
    /\ last' = [op |-> "iterate", url |-> url, fetch |-> "ok",
                raised |-> extract_article_data(url, doc).raised, given |-> "",
                links |-> {}]
    /\ pc' = "stopped" /\ exit' = "error"
    /\ rested' = FALSE
    /\ UNCHANGED <<visited_urls, articles, file, autoSaves, finalSaves, lastSave, max_pages,
                   start_urls, probe>>

(* Line 200 raises: extract_date meets an element without a usable value;  *)
(* the AttributeError is caught by neither try, the finally block runs.    *)
ExtractError(url, doc, io) ==
    /\ Popped(url) /\ url \notin visited_urls
    /\ extract_article_data(url, doc).raised # "none"
    /\ Fetched(url)
    /\ Commit(Finally(Request(Pop(Mem, url)), io))
    /\ last' = Step("iterate", url, "ok", extract_article_data(url, doc).raised)
    /\ pc' = "stopped" /\ exit' = ExitOf("error", lastSave')
    /\ UNCHANGED <<max_pages, start_urls, probe>>

(* Line 204 raises: urljoin rejects a malformed href after the record was  *)
(* saved; the ValueError leaves the loop through the finally block.        *)
LinkError(url, doc, ioA, ioF) ==
    /\ Popped(url) /\ url \notin visited_urls
    /\ extract_article_data(url, doc).raised = "none"
    /\ extract_links(doc).raised # "none"
    /\ Fetched(url)
    /\ Commit(Finally(AfterSave(url, doc, ioA), ioF))
    /\ last' = Step("iterate", url, "ok", extract_links(doc).raised)
    /\ pc' = "stopped" /\ exit' = ExitOf("error", lastSave')
    /\ UNCHANGED <<max_pages, start_urls, probe>>

(* KeyboardInterrupt inside the loop; the finally block runs and main      *)
(* (lines 227-231) catches it.  At the while condition: *)
InterruptAtWhile(io) ==
    /\ pc = "running"
    /\ Commit(Finally(Mem, io))
    /\ last' = Step("interrupt", 0, "none", "KeyboardInterrupt")
    /\ pc' = "stopped" /\ exit' = "interrupt"
    /\ UNCHANGED <<max_pages, start_urls, probe, fetches>>

(* ... after the pop of line 188, before requests.get is called (or       *)
(* before the `continue` of a visited URL): *)
InterruptAfterPop(url, io) ==
    /\ Popped(url)
    /\ Commit(Finally(Pop(Mem, url), io))
    /\ last' = Step("interrupt", url, "none", "KeyboardInterrupt")
    /\ pc' = "stopped" /\ exit' = "interrupt"
    /\ UNCHANGED <<max_pages, start_urls, probe, fetches>>

(* ... during requests.get: *)
InterruptInGet(url, io) ==
    /\ Popped(url) /\ url \notin visited_urls
    /\ Fetched(url)
    /\ Commit(Finally(Request(Pop(Mem, url)), io))
    /\ last' = Step("interrupt", url, "none", "KeyboardInterrupt")
    /\ pc' = "stopped" /\ exit' = "interrupt"
    /\ UNCHANGED <<max_pages, start_urls, probe>>

(* ... after a successful fetch, once save_article has returned, or       *)
(* inside save_article when its checkpoint is due: *)
InterruptAfterSave(url, doc, ioA, ioF) ==
    /\ Popped(url) /\ url \notin visited_urls
    /\ extract_article_data(url, doc).raised = "none"
    /\ Fetched(url)
    /\ Commit(Finally(IF ioA = BeforeCheckpoint THEN AfterAppend(url, doc)
                      ELSE AfterSave(url, doc, ioA), ioF))
    /\ last' = Step("interrupt", url, "ok", "KeyboardInterrupt")
    /\ pc' = "stopped" /\ exit' = "interrupt"
    /\ UNCHANGED <<max_pages, start_urls, probe>>

(* ... once the queue is updated, before the URL is marked visited: *)
InterruptAfterOffer(url, doc, ioA, ioF) ==
    /\ Popped(url) /\ url \notin visited_urls
    /\ extract_article_data(url, doc).raised = "none"
    /\ extract_links(doc).raised = "none"
    /\ Fetched(url)
    /\ Commit(Finally(AfterOffer(url, doc, ioA), ioF))
    /\ last' = [Step("interrupt", url, "ok", "KeyboardInterrupt")
                    EXCEPT !.links = extract_links(doc).links]
    /\ pc' = "stopped" /\ exit' = "interrupt"
    /\ UNCHANGED <<max_pages, start_urls, probe>>

(* ... and once the URL is marked visited, before time.sleep has returned. *)
(* (An interrupt after line 209 leaves the state InterruptAtWhile finds.)  *)
InterruptAfterVisit(url, doc, ioA, ioF) ==
    /\ Popped(url) /\ url \notin visited_urls
    /\ extract_article_data(url, doc).raised = "none"
    /\ extract_links(doc).raised = "none"
    /\ Fetched(url)
    /\ Commit(Finally(AfterVisit(url, doc, ioA), ioF))
    /\ last' = [Step("interrupt", url, "ok", "KeyboardInterrupt")
                    EXCEPT !.links = extract_links(doc).links]
    /\ pc' = "stopped" /\ exit' = "interrupt"
    /\ UNCHANGED <<max_pages, start_urls, probe>>

(* Line 187 is false: the loop ends, the finally block runs. *)
ExitLoop(io) ==
    /\ pc = "running" /\ ~LoopCond
    /\ Commit(Finally(Mem, io))
    /\ last' = Step("exit", 0, "none", "none")
    /\ pc' = "stopped"
    /\ exit' = ExitOf(IF queue = {} THEN "exhausted" ELSE "cap", lastSave')
    /\ UNCHANGED <<max_pages, start_urls, probe, fetches>>

StartSets == {{1}, {1, 2}}

Init ==
    /\ start_urls \in StartSets
    /\ queue = start_urls
    /\ rested = TRUE
    /\ probe = NoProbe
    /\ visited_urls = {}
    /\ articles = <<>>
    /\ max_pages \in 1..MaxPagesBound
    /\ file \in InitialFiles
    /\ pc = "running"
    /\ exit = "none"
    /\ autoSaves = 0 /\ finalSaves = 0
    /\ lastSave = "none"
    /\ fetches = [u \in URLS |-> 0]
    /\ last = Step("init", 0, "none", "none")

(* The URLs line 188 can pop in the current state. *)
Poppable == {url \in queue : Popped(url)}

Next ==
    \/ \E url \in Poppable : Skip(url)
    \/ \E url \in Poppable, kind \in TransportErrors : FetchFail(url, kind)
    \/ \E url \in Poppable, doc \in Pages, io \in CheckpointIOs : FetchOk(url, doc, io)
    \/ \E url \in Poppable, doc \in Pages, io \in FinalIOs : ExtractError(url, doc, io)
    \/ \E url \in Poppable, doc \in Pages, ioA \in CheckpointIOs, ioF \in FinalIOs :
           LinkError(url, doc, ioA, ioF)
    \/ \E io \in FinalIOs : InterruptAtWhile(io)
    \/ \E url \in Poppable, io \in FinalIOs : InterruptAfterPop(url, io)
    \/ \E url \in Poppable, io \in FinalIOs : InterruptInGet(url, io)
    \/ \E url \in Poppable, doc \in Pages, ioA \in CheckpointIOs \cup CheckpointInterrupts,
          ioF \in FinalIOs :
           InterruptAfterSave(url, doc, ioA, ioF)
    \/ \E url \in Poppable, doc \in Pages, ioA \in CheckpointIOs, ioF \in FinalIOs :
           InterruptAfterOffer(url, doc, ioA, ioF)
    \/ \E url \in Poppable, doc \in Pages, ioA \in CheckpointIOs, ioF \in FinalIOs :
           InterruptAfterVisit(url, doc, ioA, ioF)
    \/ \E io \in FinalIOs : ExitLoop(io)

Spec == Init /\ [][Next]_vars

(* The loop is a sequential program: it takes its next step.  A step is   *)
(* possible exactly while crawl() runs (a URL can be popped, or the loop    *)
(* can end), and every step of Spec that changes the state is a step of    *)
(* Next, so weak fairness of Next is: crawl() has stopped, or the state     *)
(* keeps changing.                                                         *)
FairSpec == Spec /\ ([]<>(pc = "stopped") \/ []<><<TRUE>>_vars)

-----------------------------------------------------------------------------
(* The article store on its own: a caller hands records to save_article.   *)
(* URLs are numbered in the order of their first appearance; the caller    *)
(* offers the next new URL, or again one of the first MaxDupUrl URLs, with  *)
(* the same content or another.  A call whose checkpoint is due can be cut *)
(* short by a KeyboardInterrupt, before save_json is called or inside it;  *)
(* the caller goes on with the store as the interrupt left it.             *)

StoreDates == {"NOW", "2024-01-02T00:00:00"}

(* A file an earlier run left with three records of pages that had a long  *)
(* article text: LongText bytes more than "Obsah nenalezen".               *)
LongText == 6000

LongOutput ==
    [i \in DOMAIN OldOutput |->
        IF OldOutput[i].k = "rec" THEN [OldOutput[i] EXCEPT !.size = @ + LongText]
        ELSE OldOutput[i]]

StoreFiles == InitialFiles \cup {Existing(LongOutput)}

StoreRecords ==
    {[url |-> Len(articles) + 1, title |-> TitleNotFound, created_at |-> "NOW"]} \cup
    {[url |-> u, title |-> TitleNotFound, created_at |-> c] :
        u \in 1..Min(Len(articles), MaxDupUrl), c \in StoreDates}

StoreSaveArticle(article_data, io) ==
    /\ pc = "store"
    /\ article_data.url <= MaxStoreUrls
    /\ Commit(IF io = BeforeCheckpoint THEN save_article_interrupted(Mem, article_data)
              ELSE save_article(Mem, article_data, io))
    /\ last' = [Step("save_article", article_data.url, "none",
                     IF io.interrupt THEN "KeyboardInterrupt" ELSE "none")
                    EXCEPT !.given = article_data.created_at]
    /\ UNCHANGED <<max_pages, start_urls, probe, pc, exit, fetches>>

StoreInit ==
    /\ start_urls = {}
    /\ queue = {}
    /\ rested = TRUE
    /\ probe = NoProbe
    /\ visited_urls = {}
    /\ articles = <<>>
    /\ max_pages = 0
    /\ file \in StoreFiles
    /\ pc = "store"
    /\ exit = "none"
    /\ autoSaves = 0 /\ finalSaves = 0
    /\ lastSave = "none"
    /\ fetches = [u \in URLS |-> 0]
    /\ last = Step("init", 0, "none", "none")

StoreNext == \E article_data \in StoreRecords, io \in CheckpointIOs \cup CheckpointInterrupts :
                 StoreSaveArticle(article_data, io)

StoreSpec == StoreInit /\ [][StoreNext]_vars

-----------------------------------------------------------------------------
(* The end-to-end scenario: one seed, max_pages = 2, and every page served *)
(* holds one in-scope link (URL 2) and one out-of-scope link (URL 4),      *)
(* next to which a page can hold a malformed href; its date and title      *)
(* elements and the clock are any.  (No popped URL is already visited      *)
(* here: the loop ends before the self-link of URL 2 is popped.)           *)

E2ETitles == {<<>>, <<[tag |-> "h1", classes |-> {"article-title"}, text |-> " A "]>>}

E2EDoc(date, title) == Page({2, 4}, date, FALSE, title)

E2EPages ==
    {E2EDoc(date, title) : date \in DateChains, title \in E2ETitles}
    \cup {[E2EDoc(NoDate, <<>>) EXCEPT !.now = "NOW_S"]}
    \cup {Page({2, 4}, NoDate, TRUE, <<>>)}

E2EInit ==
    /\ start_urls = {1}
    /\ queue = start_urls
    /\ rested = TRUE
    /\ probe = NoProbe
    /\ visited_urls = {}
    /\ articles = <<>>
    /\ max_pages = 2
    /\ file \in InitialFiles
    /\ pc = "running"
    /\ exit = "none"
    /\ autoSaves = 0 /\ finalSaves = 0
    /\ lastSave = "none"
    /\ fetches = [u \in URLS |-> 0]
    /\ last = Step("init", 0, "none", "none")

E2ENext ==
    \/ \E url \in Poppable, kind \in TransportErrors : FetchFail(url, kind)
    \/ \E url \in Poppable, doc \in E2EPages, io \in CheckpointIOs : FetchOk(url, doc, io)
    \/ \E url \in Poppable, doc \in E2EPages, io \in FinalIOs : ExtractError(url, doc, io)
    \/ \E url \in Poppable, doc \in E2EPages, ioA \in CheckpointIOs, ioF \in FinalIOs :
           LinkError(url, doc, ioA, ioF)
    \/ \E io \in FinalIOs : InterruptAtWhile(io)
    \/ \E url \in Poppable, io \in FinalIOs : InterruptAfterPop(url, io)
    \/ \E url \in Poppable, io \in FinalIOs : InterruptInGet(url, io)
    \/ \E url \in Poppable, doc \in E2EPages, ioA \in CheckpointIOs \cup CheckpointInterrupts,
          ioF \in FinalIOs :
           InterruptAfterSave(url, doc, ioA, ioF)
    \/ \E url \in Poppable, doc \in E2EPages, ioA \in CheckpointIOs, ioF \in FinalIOs :
           InterruptAfterOffer(url, doc, ioA, ioF)
    \/ \E url \in Poppable, doc \in E2EPages, ioA \in CheckpointIOs, ioF \in FinalIOs :
           InterruptAfterVisit(url, doc, ioA, ioF)
    \/ \E io \in FinalIOs : ExitLoop(io)

E2ESpec == E2EInit /\ [][E2ENext]_vars

-----------------------------------------------------------------------------
(* crawl() at the moment its collection is one record short of a           *)
(* checkpoint: the seed PastSeed was popped first and led to PastUrls,     *)
(* whose pages, without date or title element, are fetched, recorded and   *)
(* visited; the seeds 1 and 2 are still in the queue, no checkpoint has    *)
(* touched the output file, which is absent or left by an earlier run, and *)
(* max_pages leaves room for up to MaxPagesBound more pages.  The pages    *)
(* served from here on link to nothing or to URLs 2 and 3, and are without *)
(* date element, dated, with a date element that has no value, or with a   *)
(* malformed href.                                                         *)

PastSeed == Len(UrlTable) + 1

PastUrls == PastSeed..(PastSeed + BatchSize - 2)

PastRecords ==
    [i \in 1..(BatchSize - 1) |->
        [url |-> PastSeed + i - 1, title |-> TitleNotFound, created_at |-> "NOW"]]

LongRunInit ==
    /\ queue = {1, 2}
    /\ start_urls = queue \cup {PastSeed}
    /\ rested = TRUE
    /\ probe = NoProbe
    /\ visited_urls = PastUrls
    /\ articles = PastRecords
    /\ max_pages \in {Cardinality(PastUrls) + k : k \in 1..MaxPagesBound}
    /\ file \in {Absent, Existing(OldOutput)}
    /\ pc = "running"
    /\ exit = "none"
    /\ autoSaves = 0 /\ finalSaves = 0
    /\ lastSave = "none"
    /\ fetches = [u \in URLS |-> 0]
    /\ last = Step("iterate", PastSeed + BatchSize - 2, "ok", "none")

LongRunPages ==
    {Doc(links, NoDate, FALSE) : links \in {{}, {2, 3}}}
    \cup {Doc({2, 3}, date, FALSE) :
              date \in {<<Elem("2024-01-02T03:04:05Z", "None"), NoElem, NoElem>>,
                        <<Elem("None", "None"), NoElem, NoElem>>}}
    \cup {Doc({2, 3}, NoDate, TRUE)}

LongRunNext ==
    \/ \E url \in Poppable : Skip(url)
    \/ \E url \in Poppable, kind \in TransportErrors : FetchFail(url, kind)
    \/ \E url \in Poppable, doc \in LongRunPages, io \in CheckpointIOs : FetchOk(url, doc, io)
    \/ \E url \in Poppable, doc \in LongRunPages, io \in FinalIOs : ExtractError(url, doc, io)
    \/ \E url \in Poppable, doc \in LongRunPages, ioA \in CheckpointIOs, ioF \in FinalIOs :
           LinkError(url, doc, ioA, ioF)
    \/ \E io \in FinalIOs : InterruptAtWhile(io)
    \/ \E url \in Poppable, io \in FinalIOs : InterruptAfterPop(url, io)
    \/ \E url \in Poppable, io \in FinalIOs : InterruptInGet(url, io)
    \/ \E url \in Poppable, doc \in LongRunPages,
          ioA \in CheckpointIOs \cup CheckpointInterrupts, ioF \in FinalIOs :
           InterruptAfterSave(url, doc, ioA, ioF)
    \/ \E url \in Poppable, doc \in LongRunPages, ioA \in CheckpointIOs, ioF \in FinalIOs :
           InterruptAfterOffer(url, doc, ioA, ioF)
    \/ \E url \in Poppable, doc \in LongRunPages, ioA \in CheckpointIOs, ioF \in FinalIOs :
           InterruptAfterVisit(url, doc, ioA, ioF)
    \/ \E io \in FinalIOs : ExitLoop(io)

LongRunSpec == LongRunInit /\ [][LongRunNext]_vars

-----------------------------------------------------------------------------
(* is_valid_article_url on its own: one URL is drawn and classified.  The  *)
(* URLs are built from hosts and from pieces of path and query string; a   *)
(* piece that starts with "?" opens the query string.                      *)

ClassifierNetlocs == {<<"www.", "novinky.cz">>, <<"www.", "idnes.cz">>,
                      <<"ctk.cz">>, <<"www.", "example.com">>}

RestPieces == {"/clanek/", "/zpravy/", "x", ".jpg", ".JPG", "?w=1"}

SeqsUpTo(S, n) == UNION {[1..k -> S] : k \in 1..n}

ClassifierUrls ==
    {[netloc |-> h, rest |-> r] : h \in ClassifierNetlocs, r \in SeqsUpTo(RestPieces, MaxRestLen)}

Classify ==
    /\ pc = "classifier" /\ ~probe.done
    /\ probe' = [probe EXCEPT !.output = is_valid_article_url(probe.input), !.done = TRUE]
    /\ UNCHANGED <<queue, visited_urls, articles, max_pages, file, pc, exit, autoSaves,
                   finalSaves, lastSave, fetches, last, start_urls, rested>>

ClassifierInit ==
    /\ start_urls = {} /\ queue = {} /\ rested = TRUE
    /\ probe \in {[fn |-> "is_valid_article_url", input |-> u, output |-> FALSE, done |-> FALSE] :
                     u \in ClassifierUrls}
    /\ visited_urls = {} /\ articles = <<>> /\ max_pages = 0
    /\ file = Absent
    /\ pc = "classifier"
    /\ exit = "none"
    /\ autoSaves = 0 /\ finalSaves = 0
    /\ lastSave = "none"
    /\ fetches = [u \in URLS |-> 0]
    /\ last = Step("init", 0, "none", "none")

ClassifierNext == Classify

ClassifierSpec == ClassifierInit /\ [][ClassifierNext]_vars

-----------------------------------------------------------------------------
(* extract_title on its own: one document is drawn and its title taken. *)

TitleDocs == {<<>>} \cup SeqsUpTo(TitleElems, MaxTitleElems)

ExtractTitle ==
    /\ pc = "extractor" /\ ~probe.done
    /\ probe' = [probe EXCEPT !.output = extract_title(probe.input), !.done = TRUE]
    /\ UNCHANGED <<queue, visited_urls, articles, max_pages, file, pc, exit, autoSaves,
                   finalSaves, lastSave, fetches, last, start_urls, rested>>

TitleInit ==
    /\ start_urls = {} /\ queue = {} /\ rested = TRUE
    /\ probe \in {[fn |-> "extract_title", input |-> d, output |-> "", done |-> FALSE] :
                     d \in TitleDocs}
    /\ visited_urls = {} /\ articles = <<>> /\ max_pages = 0
    /\ file = Absent
    /\ pc = "extractor"
    /\ exit = "none"
    /\ autoSaves = 0 /\ finalSaves = 0
    /\ lastSave = "none"
    /\ fetches = [u \in URLS |-> 0]
    /\ last = Step("init", 0, "none", "none")

TitleNext == ExtractTitle

TitleSpec == TitleInit /\ [][TitleNext]_vars

-----------------------------------------------------------------------------
(* Claims *)

(* C1: over a full run of crawl(), every URL is passed to requests.get at  *)
(* most once.  Violated: a URL whose fetch failed is not marked visited    *)
(* (see C2), so a later page that links to it puts it back in the queue.   *)
C1_EachUrlFetchedAtMostOnce == \A u \in URLS : fetches[u] <= 1

(* C2: when the fetch of a URL fails with a transport error, that URL is   *)
(* in visited at the end of the same iteration.  Violated: the except      *)
(* clause only logs.                                                       *)
C2_FailedUrlMarkedVisited ==
    [][(last'.op = "iterate" /\ last'.fetch = "failed")
          => last'.url \in visited_urls']_vars

(* C3: at every evaluation of the while condition the queue and the        *)
(* visited set are disjoint.  Violated: a page that links to itself is     *)
(* offered to the queue before it is marked visited.                       *)
C3_PendingVisitedDisjoint == pc = "running" => queue \cap visited_urls = {}

(* C4: the collection holds at most one record per url, and save_article   *)
(* called with a url already present leaves the collection unchanged.      *)
NoDuplicateUrls ==
    \A i, j \in DOMAIN articles : articles[i].url = articles[j].url => i = j

C4_OneRecordPerUrlFirstKept ==
    /\ []NoDuplicateUrls
    /\ [][(last'.op = "save_article" /\ HasUrl(articles, last'.url))
             => articles' = articles]_vars

(* C4's case: a record for a stored url, with other content, was just      *)
(* offered, and the stored record is still the first one.                  *)
C4_Witness ==
    /\ last.op = "save_article"
    /\ Len(articles) >= 2
    /\ \E i \in DOMAIN articles :
           /\ articles[i].url = last.url
           /\ articles[i].created_at # last.given
           /\ i < Len(articles)

(* C5: on every exit path of crawl() (queue exhausted, page cap, uncaught  *)
(* error, interruption) the final save_json has run once when crawl() has  *)
(* exited, and it does not run before.                                     *)
C5_FinalFlushOnEveryExit ==
    /\ pc = "stopped" => finalSaves = 1
    /\ pc = "running" => finalSaves = 0

(* C5's case: crawl() left its loop by an uncaught error. *)
C5_Witness == pc = "stopped" /\ exit = "error" /\ finalSaves = 1

(* C6: save_article calls save_json exactly when it appends a record that  *)
(* makes the size of the collection a multiple of 50, and then once.       *)
(* Violated: a KeyboardInterrupt between the append of line 159 and the    *)
(* call of line 164 leaves a collection of 50 records with no checkpoint.  *)
C6_CheckpointExactlyAtMultiples ==
    [][last'.op = "save_article" =>
          /\ autoSaves' \in {autoSaves, autoSaves + 1}
          /\ autoSaves' = autoSaves + 1
                <=> (Len(articles') = Len(articles) + 1
                       /\ Len(articles') % 50 = 0)]_vars

(* C6, amended: save_article calls save_json only when it appends a record *)
(* that makes the size of the collection a multiple of 50, at most once;   *)
(* and it does call it on every such append unless a KeyboardInterrupt     *)
(* ends save_article first.                                                *)
C6_CheckpointAtMultiplesUnlessInterrupted ==
    [][last'.op = "save_article" =>
          /\ autoSaves' \in {autoSaves, autoSaves + 1}
          /\ autoSaves' = autoSaves + 1
                => (Len(articles') = Len(articles) + 1 /\ Len(articles') % 50 = 0)
          /\ (Len(articles') = Len(articles) + 1 /\ Len(articles') % 50 = 0
                 /\ last'.raised # "KeyboardInterrupt")
                => autoSaves' = autoSaves + 1]_vars

(* C6's case: the hundredth record has just been added by a save_article   *)
(* that ran to its end, and both checkpoints have been made.               *)
C6_Witness ==
    /\ last.op = "save_article" /\ last.url = 100 /\ last.raised = "none"
    /\ Len(articles) = 100 /\ autoSaves = 2

InFile(r) == file.exists /\ Contains(file.data, RecTok(r))

(* C7: when crawl() has exited and the final write neither failed on the   *)
(* file system nor was interrupted, every record of the collection is in   *)
(* the output file.                                                        *)
(* Violated: open(..., 'r+') raises FileNotFoundError when the file does   *)
(* not exist yet, and nothing is written.                                  *)
C7_AllRecordsDurableAtStop ==
    (pc = "stopped" /\ lastSave \notin {"OSError", "KeyboardInterrupt"})
        => \A i \in DOMAIN articles : InFile(articles[i])

(* C8: after a save_json whose write succeeds the file holds exactly the   *)
(* serialization of the collection.  Violated: the file is not truncated,  *)
(* the end of a longer earlier content stays behind the new one.           *)
C8_FileIsExactlyTheCollection ==
    [][((autoSaves' # autoSaves \/ finalSaves' # finalSaves) /\ lastSave' = "ok")
          => file'.data = Serialize(articles')]_vars

(* C9: for every successfully fetched page (whose links are well formed,   *)
(* and without interruption) a record is stored and the loop keeps         *)
(* running.  Violated: a date element without its value makes              *)
(* extract_date raise AttributeError, which ends crawl().                  *)
C9_ExtractionNeverAborts ==
    [][(last'.fetch = "ok" /\ last'.raised \notin {"KeyboardInterrupt", "ValueError"})
          => (HasUrl(articles', last'.url) /\ pc' = "running")]_vars

(* C10: crawl() terminates, and (interruption apart) its loop stops only   *)
(* when the queue is empty or |visited| >= max_pages.  The second part is  *)
(* violated by the uncaught error of C9.                                   *)
C10_LoopStopsExactlyOnCondition ==
    (pc = "stopped" /\ exit # "interrupt")
        => (queue = {} \/ Cardinality(visited_urls) >= max_pages)

(* The first part of C10: under FairSpec crawl() always exits, with the    *)
(* final flush done.                                                       *)
C10_Terminates == <>(pc = "stopped" /\ finalSaves = 1)

(* Why it does: every step either ends crawl() with the final flush done,  *)
(* or marks one more URL visited, or takes a URL out of the queue with     *)
(* visited unchanged.                                                      *)
C10_EveryStepProgresses ==
    [][pc = "running" =>
          \/ pc' = "stopped" /\ finalSaves' = 1
          \/ Cardinality(visited_urls') = Cardinality(visited_urls) + 1
          \/ /\ visited_urls' = visited_urls
             /\ Cardinality(queue') < Cardinality(queue)]_vars

(* The path of a URL: what comes before the query string. *)
RECURSIVE PathOf(_)
PathOf(rest) ==
    IF rest = <<>> \/ Head(rest) = "?w=1" THEN <<>>
    ELSE <<Head(rest)>> \o PathOf(Tail(rest))

C11_Accepts(url) ==
    /\ \E i \in DOMAIN valid_domains : Contains(url.netloc, valid_domains[i])
    /\ \E i \in DOMAIN article_patterns :
           /\ Contains(url.netloc, article_patterns[i].site)
           /\ Contains(UrlPieces(url), article_patterns[i].pattern)
    /\ LET path == PathOf(url.rest)
       IN ~(path # <<>> /\ Lower(path[Len(path)]) \in {".jpg", ".jpeg", ".png", ".gif", ".pdf", ".mp4"})

(* C11: is_valid_article_url accepts a URL exactly when its host contains  *)
(* an allowed domain, the URL matches the pattern of that domain, and the  *)
(* URL path does not end with a denylisted extension; the three boundary   *)
(* cases of the specification come out as stated.  Violated: the code      *)
(* tests the end of the whole URL, query string included, not of the path. *)
C11_AcceptsIffThreeConditions ==
    /\ probe.done => (probe.output <=> C11_Accepts(probe.input))
    /\ ~is_valid_article_url([netloc |-> <<"www.", "novinky.cz">>, rest |-> <<"/clanek/", "x", ".jpg">>])
    /\ is_valid_article_url([netloc |-> <<"www.", "idnes.cz">>, rest |-> <<"/zpravy/", "y">>])
    /\ ~is_valid_article_url([netloc |-> <<"www.", "example.com">>, rest |-> <<"/clanek/", "x">>])

(* C12: in the end-to-end scenario a run that is not interrupted ends with *)
(* 2 records and |visited| = 2 when the second fetch (of the in-scope      *)
(* link) succeeds, with 1 record and |visited| = 1 when it fails; the      *)
(* out-of-scope link is never fetched and the final flush is made once, at *)
(* termination.  Violated: when the second page holds a date element       *)
(* without value, its fetch succeeds and extract_date raises (see C9); the *)
(* run ends with 1 record and |visited| = 1.  (A malformed href on the     *)
(* second page ends it with 2 records and |visited| = 1.)                  *)
C12_SecondFetch(outcome) ==
    \/ last'.url = 2 /\ last'.fetch = outcome
    \/ last'.op = "exit" /\ last.url = 2 /\ last.fetch = outcome

C12_EndToEnd ==
    /\ [](fetches[4] = 0)
    /\ [](finalSaves = IF pc = "stopped" THEN 1 ELSE 0)
    /\ [][(pc' = "stopped" /\ exit' # "interrupt") =>
            /\ C12_SecondFetch("ok")
                  => (Len(articles') = 2 /\ Cardinality(visited_urls') = 2)
            /\ C12_SecondFetch("failed")
                  => (Len(articles') = 1 /\ Cardinality(visited_urls') = 1)]_vars

(* C13: a save_json whose write fails (OSError, or FileNotFoundError at    *)
(* open) stops nothing and changes nothing in memory.  At the automatic    *)
(* checkpoint of an iteration, the iteration ends as any successful one:   *)
(* the collection has the new record after the earlier ones, the URL is    *)
(* visited, its accepted links are in the queue, and the loop is running.  *)
(* At the final flush, collection, queue and visited are as the loop left  *)
(* them and crawl() exits.  And the later save is attempted as usual: the  *)
(* final flush is made whatever happened at the checkpoint, and when its   *)
(* write succeeds the file begins with the whole collection.               *)
C13_WriteFailureIsHarmless ==
    /\ [][(last'.op = "iterate" /\ last'.fetch = "ok" /\ last'.raised = "none"
              /\ autoSaves' = autoSaves + 1
              /\ lastSave' \in {"OSError", "FileNotFoundError"})
            => /\ Len(articles') = Len(articles) + 1
               /\ SubSeq(articles', 1, Len(articles)) = articles
               /\ articles'[Len(articles')].url = last'.url
               /\ visited_urls' = visited_urls \cup {last'.url}
               /\ queue' = (queue \ {last'.url}) \cup (last'.links \ visited_urls)
               /\ pc' = "running"]_vars
    /\ [][((last'.op = "exit" \/ (last'.op = "interrupt" /\ last'.url = 0))
              /\ lastSave' \in {"OSError", "FileNotFoundError"})
            => /\ articles' = articles /\ queue' = queue /\ visited_urls' = visited_urls
               /\ pc' = "stopped" /\ finalSaves' = finalSaves + 1]_vars
    /\ [](pc = "stopped" =>
            /\ finalSaves = 1
            /\ lastSave = "ok" =>
                  /\ file.exists
                  /\ Len(file.data) >= Len(Serialize(articles))
                  /\ SubSeq(file.data, 1, Len(Serialize(articles))) = Serialize(articles))

(* C13's case: the checkpoint at the 50th record failed on the write, and  *)
(* the loop is running with URLs to take.                                  *)
C13_Witness ==
    /\ pc = "running" /\ LoopCond
    /\ last.op = "iterate" /\ last.fetch = "ok"
    /\ autoSaves = 1 /\ lastSave = "OSError"
    /\ Len(articles) = BatchSize /\ articles[BatchSize].url = last.url

(* C14: an iteration whose fetch fails, whatever the transport error,     *)
(* leaves the collection and visited as they were, takes only the popped   *)
(* URL out of the queue, and leaves the loop running: when URLs remain,    *)
(* the loop condition still holds and the next iteration takes one.        *)
C14_TransportFailureIsRecovered ==
    [][(last'.op = "iterate" /\ last'.fetch = "failed")
          => /\ last'.raised \in TransportErrors
             /\ articles' = articles
             /\ visited_urls' = visited_urls
             /\ queue' = queue \ {last'.url}
             /\ file' = file
             /\ pc' = "running"
             /\ (queue' # {} => LoopCond')]_vars

(* C14's case: a fetch failed on a non-2xx status with another URL         *)
(* pending, and that URL was fetched next and gave a record.               *)
C14_Witness ==
    /\ fetches[1] = 1 /\ ~HasUrl(articles, 1)
    /\ last.op = "iterate" /\ last.fetch = "ok" /\ last.url = 2
    /\ HasUrl(articles, 2)

(* Each kind of transport error occurs. *)
C14_WitnessKinds ==
    last.fetch = "failed" /\ last.raised = "Timeout" /\ queue # {}

(* C15: the queue grows only in a successful iteration, and only by links *)
(* of the fetched page that is_valid_article_url accepts and that are not  *)
(* in visited when the queue is updated; so every URL fetched is a seed or *)
(* a URL the classifier accepts.                                           *)
C15_QueueGrowsOnlyByAcceptedLinks ==
    /\ [][\A u \in queue' \ queue :
              /\ last'.fetch = "ok"
              /\ u \in last'.links
              /\ is_valid_article_url(UrlTable[u])
              /\ u \notin visited_urls]_vars
    /\ [](\A u \in URLS :
              fetches[u] > 0 => (u \in start_urls \/ is_valid_article_url(UrlTable[u])))

(* C15's case: URL 3, not a seed, was queued as a link of the page at 2    *)
(* and then fetched; its page links back to 2, by then visited, and 2 is   *)
(* not queued again.                                                       *)
C15_Witness ==
    /\ 3 \notin start_urls /\ fetches[2] = 1 /\ 2 \in visited_urls
    /\ last.op = "iterate" /\ last.fetch = "ok" /\ last.url = 3
    /\ 2 \in last.links /\ 2 \notin queue

(* C16: when the URL taken from the queue is already in visited, the step  *)
(* makes no fetch and changes neither the collection, nor visited, nor the *)
(* rest of the queue; and unless it is interrupted it is the skip, which   *)
(* leaves the file alone and the loop running.                             *)
C16_VisitedUrlIsSkipped ==
    [][\A u \in URLS :
          (pc = "running" /\ LoopCond /\ u \in queue /\ u \in visited_urls /\ u \notin queue')
            => /\ fetches' = fetches
               /\ articles' = articles
               /\ visited_urls' = visited_urls
               /\ queue' = queue \ {u}
               /\ last'.url = u
               /\ last'.op # "interrupt"
                     => (last'.op = "skip" /\ file' = file /\ pc' = "running")]_vars

(* C16's case: URL 2, fetched once and visited, was queued again by its    *)
(* own link and then popped and skipped, with URL 1 still pending.         *)
C16_Witness ==
    /\ last.op = "skip" /\ last.url = 2
    /\ fetches[2] = 1 /\ 2 \in visited_urls
    /\ 1 \in queue

(* The title the claim's rule gives: the candidates in order, the first    *)
(* whose match has text that is not empty after stripping.                 *)
C17_Matches(doc, tag, class) ==
    {i \in DOMAIN doc : doc[i].tag = tag /\ (class = "" \/ class \in doc[i].classes)}

C17_Candidates(doc) ==
    <<C17_Matches(doc, "h1", "article-title"), C17_Matches(doc, "h1", "title"),
      C17_Matches(doc, "h1", ""), C17_Matches(doc, "title", "")>>

C17_First(S) == CHOOSE i \in S : \A j \in S : i <= j

(* C17: extract_title tries its candidates in the order h1.article-title,  *)
(* h1.title, h1, title and returns the stripped text of the first element  *)
(* of the first candidate that matches one; an h1.article-title element    *)
(* wins over every generic heading and title, wherever it stands in the    *)
(* document; when no candidate matches, the sentinel is returned.          *)
C17_FirstMatchingCandidate ==
    (pc = "extractor" /\ probe.done)
        => LET doc == probe.input
               c == C17_Candidates(doc)
               hit == {k \in DOMAIN c : c[k] # {}}
           IN /\ hit = {} => probe.output = TitleNotFound
              /\ hit # {} => probe.output = Strip(doc[C17_First(c[C17_First(hit)])].text)
              /\ (c[1] # {} /\ (c[3] # {} \/ c[4] # {}))
                    => probe.output = Strip(doc[C17_First(c[1])].text)

(* C17's case: a plain h1 comes first in the document, the h1.article-title *)
(* after it, and the text of the latter is returned, stripped.             *)
C17_SpecificWins ==
    /\ pc = "extractor" /\ probe.done
    /\ probe.input = <<[tag |-> "h1", classes |-> {}, text |-> "B"],
                       [tag |-> "h1", classes |-> {"article-title"}, text |-> " A "]>>
    /\ probe.output = "A"

(* C18: between two consecutive fetches the delay of line 209 is applied:  *)
(* a request goes out only when no request was made before it or the delay *)
(* has occurred since the last one.  Violated: time.sleep stands at the    *)
(* end of the try block, so an iteration whose fetch failed goes to the    *)
(* next request with no delay.                                             *)
C18_DelayBetweenFetches == [][fetches' # fetches => rested]_vars

(* The delay does occur after every iteration whose fetch succeeded and    *)
(* that reached the end of the try block.                                  *)
C18_DelayAfterSuccess ==
    [][(last'.op = "iterate" /\ last'.fetch = "ok" /\ last'.raised = "none") => rested']_vars

(* C18's case: the fetch of one seed failed and the other seed is pending. *)
C18_FailedFetchNotRested ==
    /\ start_urls = {1, 2} /\ pc = "running" /\ LoopCond
    /\ last.op = "iterate" /\ last.fetch = "failed" /\ ~rested

(* C19: every URL in visited has a record in the collection, visited never *)
(* holds more than max_pages URLs, and the collection never holds more     *)
(* than max_pages records.                                                 *)
C19_VisitedHaveRecordsWithinCap ==
    /\ \A u \in visited_urls : HasUrl(articles, u)
    /\ Cardinality(visited_urls) <= max_pages
    /\ Len(articles) <= max_pages

(* C19's case: the cap is reached with URLs still pending. *)
C19_Witness ==
    /\ pc = "running" /\ max_pages = 2 /\ queue # {}
    /\ Cardinality(visited_urls) = max_pages
    /\ Len(articles) = max_pages

====
